---- MODULE Spec2Model ----
(***************************************************************************)
(* Expense tracker (src/main.py): three tools, add_expense, list_expenses  *)
(* and summarize, over one SQLite table `expenses`.  Each tool opens its   *)
(* own connection; the coroutines of concurrent callers interleave at the  *)
(* awaits (connect, execute, commit, close).                               *)
(*                                                                         *)
(* Strings that the code inspects character by character (dates) are       *)
(* sequences of one-character strings.  Amounts are Python floats / SQLite *)
(* REALs: the model keeps whole-unit values and rounds every addition to   *)
(* Precision significant bits, round-half-to-even, as IEEE-754 does with   *)
(* 53 bits.                                                                *)
(***************************************************************************)
EXTENDS Integers, Sequences, FiniteSets, TLC

\* ------------------------------------------------------------------ bounds
MaxWrites == 3         \* rows the store may hold under Spec
MaxRecords == 3        \* rows the store may hold under LedgerSpec
Precision == 3         \* significant bits of a float (53 in the program)

\* The concurrent callers of the tools.
Callers == {"c1", "c2"}

\* ------------------------------------------------------------ input values
NULL == "<None>"       \* Python None, SQL NULL

\* An amount argument: a number, float('nan'), or a value that is no number.
Num(v) == [kind |-> "num", v |-> v]
NaN == [kind |-> "nan", v |-> 0]
NotANumber == [kind |-> "str", v |-> 0]

D_2024_01_10 == <<"2","0","2","4","-","0","1","-","1","0">>
D_2024_1_5 == <<"2","0","2","4","-","1","-","5">>
D_2024_13_01 == <<"2","0","2","4","-","1","3","-","0","1">>
D_2024_02_30 == <<"2","0","2","4","-","0","2","-","3","0">>

\* ------------------------------------------------------------------ strings
Digits == {"0","1","2","3","4","5","6","7","8","9"}

\* Code point of a character (the characters the date inputs use).
Ord(c) ==
  CASE c = " " -> 32
    [] c = "-" -> 45
    [] c = "0" -> 48 [] c = "1" -> 49 [] c = "2" -> 50 [] c = "3" -> 51
    [] c = "4" -> 52 [] c = "5" -> 53 [] c = "6" -> 54 [] c = "7" -> 55
    [] c = "8" -> 56 [] c = "9" -> 57

DigitVal(c) == Ord(c) - 48

\* s[i], or "" past the end of s.
At(s, i) == IF i \in 1..Len(s) THEN s[i] ELSE ""

SetMin(S) == CHOOSE x \in S : \A y \in S : x <= y

\* a <= b for TEXT values under SQLite's BINARY collation: memcmp, then length.
TextLE(a, b) ==
  LET n == IF Len(a) < Len(b) THEN Len(a) ELSE Len(b)
      diff == {i \in 1..n : a[i] # b[i]}
  IN IF diff = {} THEN Len(a) <= Len(b)
     ELSE Ord(a[SetMin(diff)]) < Ord(b[SetMin(diff)])

\* ------------------------------------------------------------ validate_date
\* The alternatives of a regex group that match s at i, in the order the regex
\* tries them, each as <<value, index after the match>>.
\* %m is (1[0-2]|0[1-9]|[1-9]).
MonthAlternatives(s, i) ==
  LET a == At(s, i)
      b == At(s, i + 1)
  IN (IF a = "1" /\ b \in {"0","1","2"} THEN << <<10 + DigitVal(b), i + 2>> >> ELSE << >>)
     \o (IF a = "0" /\ b \in Digits \ {"0"} THEN << <<DigitVal(b), i + 2>> >> ELSE << >>)
     \o (IF a \in Digits \ {"0"} THEN << <<DigitVal(a), i + 1>> >> ELSE << >>)

\* %d is (3[0-1]|[1-2]\d|0[1-9]|[1-9]| [1-9]).
DayAlternatives(s, i) ==
  LET a == At(s, i)
      b == At(s, i + 1)
  IN (IF a = "3" /\ b \in {"0","1"} THEN << <<30 + DigitVal(b), i + 2>> >> ELSE << >>)
     \o (IF a \in {"1","2"} /\ b \in Digits
           THEN << <<10 * DigitVal(a) + DigitVal(b), i + 2>> >> ELSE << >>)
     \o (IF a = "0" /\ b \in Digits \ {"0"} THEN << <<DigitVal(b), i + 2>> >> ELSE << >>)
     \o (IF a \in Digits \ {"0"} THEN << <<DigitVal(a), i + 1>> >> ELSE << >>)
     \o (IF a = " " /\ b \in Digits \ {"0"} THEN << <<DigitVal(b), i + 2>> >> ELSE << >>)

NoMatch == [found |-> FALSE, year |-> 0, month |-> 0, day |-> 0, end |-> 0]

\* re.match of (\d\d\d\d)-(%m)-(%d) at the start of s: the first alternatives, in
\* order, with which the whole pattern matches.
StrptimeMatch(s) ==
  IF ~((\A i \in 1..4 : At(s, i) \in Digits) /\ At(s, 5) = "-") THEN NoMatch
  ELSE
    LET ms == MonthAlternatives(s, 6)
        good == {k \in 1..Len(ms) :
                   At(s, ms[k][2]) = "-" /\ DayAlternatives(s, ms[k][2] + 1) # << >>}
    IN IF good = {} THEN NoMatch
       ELSE LET m == ms[SetMin(good)]
                d == DayAlternatives(s, m[2] + 1)[1]
            IN [found |-> TRUE,
                year |-> 1000 * DigitVal(s[1]) + 100 * DigitVal(s[2])
                           + 10 * DigitVal(s[3]) + DigitVal(s[4]),
                month |-> m[1], day |-> d[1], end |-> d[2]]

IsLeap(y) == y % 4 = 0 /\ (y % 100 # 0 \/ y % 400 = 0)

DaysInMonth(y, m) ==
  IF m = 2 THEN (IF IsLeap(y) THEN 29 ELSE 28)
  ELSE IF m \in {4, 6, 9, 11} THEN 30 ELSE 31

\* datetime.strptime(s, "%Y-%m-%d") does not raise ValueError: the pattern
\* matches, no data remains unconverted, and the fields are a date.
StrptimeOK(s) ==
  LET r == StrptimeMatch(s)
  IN /\ r.found
     /\ r.end = Len(s) + 1
     /\ r.year >= 1
     /\ r.day <= DaysInMonth(r.year, r.month)

DateFormatMessage == "Date must be in YYYY-MM-DD format (e.g., 2024-01-15)"

validate_date(date_str) ==
  IF StrptimeOK(date_str)
    THEN [valid |-> TRUE, msg |-> ""]
    ELSE [valid |-> FALSE, msg |-> DateFormatMessage]

\* The calendar day a date string denotes, as a day count (for comparing dates
\* chronologically).
DayNumber(s) ==
  LET r == StrptimeMatch(s) IN (r.year * 12 + r.month) * 31 + r.day

\* ------------------------------------------------------------------- floats
RECURSIVE Pow2(_)
Pow2(n) == IF n = 0 THEN 1 ELSE 2 * Pow2(n - 1)

\* x >= 0 rounded to Precision significant bits, ties to even.
Round(x) ==
  IF x < Pow2(Precision) THEN x
  ELSE
    LET e == SetMin({k \in 1..20 : x \div Pow2(k) < Pow2(Precision)})
        q == x \div Pow2(e)
        r == x % Pow2(e)
        half == Pow2(e - 1)
        up == r > half \/ (r = half /\ q % 2 = 1)
    IN (IF up THEN q + 1 ELSE q) * Pow2(e)

FloatAdd(a, b) == Round(a + b)

\* Left-to-right float sum of a sequence of numbers, starting from 0.
RECURSIVE FloatSum(_)
FloatSum(xs) ==
  IF xs = << >> THEN 0
  ELSE FloatAdd(FloatSum(SubSeq(xs, 1, Len(xs) - 1)), xs[Len(xs)])

\* ---------------------------------------------------------------- the table
\* A row of `expenses`: id, date, amount, category, subcategory, note.
Row(id, a) ==
  [id |-> id, date |-> a.date, amount |-> a.amount.v, category |-> a.category,
   subcategory |-> a.subcategory, note |-> a.note]

\* INTEGER PRIMARY KEY AUTOINCREMENT: one more than the largest rowid the table
\* has held (sqlite_sequence), as the writing transaction sees it.
NextRowid(sequence) == sequence + 1

\* Mutant of WriteLockFree: writers are not serialized.
WriteLockFree_Always(holder) == TRUE

\* A connection may start writing only while no other connection holds the
\* database's write lock.
WriteLockFree(holder) == holder = "free"

\* Mutant of CommitRows: the new row replaces the last one.
CommitRows_Overwrite(rows, row) ==
  IF rows = << >> THEN <<row>> ELSE [rows EXCEPT ![Len(rows)] = row]

\* COMMIT of the INSERT: the row joins the table.
CommitRows(rows, row) == Append(rows, row)

\* Mutant of Between: the upper endpoint is excluded.
Between_ExclusiveEnd(d, lo, hi) == TextLE(lo, d) /\ TextLE(d, hi) /\ d # hi

\* date BETWEEN ? AND ?  (TEXT comparison).
Between(d, lo, hi) == TextLE(lo, d) /\ TextLE(d, hi)

\* ORDER BY date DESC: the row with the greatest date first; rows of equal date
\* in rowid order.
RECURSIVE OrderByDateDesc(_)
OrderByDateDesc(rows) ==
  IF rows = << >> THEN << >>
  ELSE
    LET top == SetMin({i \in 1..Len(rows) :
                         \A j \in 1..Len(rows) : TextLE(rows[j].date, rows[i].date)})
    IN <<rows[top]>>
         \o OrderByDateDesc(SubSeq(rows, 1, top - 1) \o SubSeq(rows, top + 1, Len(rows)))

\* SELECT ... FROM expenses WHERE date BETWEEN ? AND ? ORDER BY date DESC
QueryRange(rows, start_date, end_date) ==
  OrderByDateDesc(SelectSeq(rows, LAMBDA r : Between(r.date, start_date, end_date)))

\* `if category:` is true of a string that is not empty.
Truthy(category) == category # NULL /\ category # ""

\* The category names in BINARY collation order.
CollationOrder ==
  <<"Bills", "Business", "Education", "Food", "Healthcare", "Other", "Shopping",
    "Transport", "Travel">>

CollationRank(c) == CHOOSE i \in 1..Len(CollationOrder) : CollationOrder[i] = c

AmountsOf(rows) == [i \in 1..Len(rows) |-> rows[i].amount]

\* Mutant of GroupRow: the total is the last amount, not the running sum.
GroupRow_LastAmount(rows, c) ==
  LET members == SelectSeq(rows, LAMBDA r : r.category = c)
  IN [category |-> c, total_amount |-> members[Len(members)].amount,
      count |-> Len(members)]

\* One row of GROUP BY category: SUM(amount) adds the group's amounts in rowid
\* order, COUNT(*) counts them.
GroupRow(rows, c) ==
  LET members == SelectSeq(rows, LAMBDA r : r.category = c)
  IN [category |-> c, total_amount |-> FloatSum(AmountsOf(members)),
      count |-> Len(members)]

\* ORDER BY total_amount DESC: the group with the greatest total first; among
\* equal totals SQLite emits the later group (in collation order) first.
RECURSIVE OrderByTotalDesc(_)
OrderByTotalDesc(groups) ==
  IF groups = {} THEN << >>
  ELSE
    LET top == CHOOSE g \in groups : \A h \in groups :
                 \/ h.total_amount < g.total_amount
                 \/ /\ h.total_amount = g.total_amount
                    /\ CollationRank(h.category) <= CollationRank(g.category)
    IN <<top>> \o OrderByTotalDesc(groups \ {top})

\* Mutant of AggregateRange: the category filter is not applied.
AggregateRange_NoCategoryFilter(rows, start_date, end_date, category) ==
  LET sel == SelectSeq(rows, LAMBDA r : Between(r.date, start_date, end_date))
      cats == {sel[i].category : i \in 1..Len(sel)}
  IN OrderByTotalDesc({GroupRow(sel, c) : c \in cats})

\* SELECT category, SUM(amount), COUNT(*) FROM expenses WHERE date BETWEEN ? AND ?
\* [AND category = ?] GROUP BY category ORDER BY total_amount DESC
AggregateRange(rows, start_date, end_date, category) ==
  LET sel == SelectSeq(rows, LAMBDA r :
               /\ Between(r.date, start_date, end_date)
               /\ (Truthy(category) => r.category = category))
      cats == {sel[i].category : i \in 1..Len(sel)}
  IN OrderByTotalDesc({GroupRow(sel, c) : c \in cats})

\* total = sum(item['total_amount'] for item in summary)
SummaryTotal(summary) ==
  FloatSum([i \in 1..Len(summary) |-> summary[i].total_amount])

\* ------------------------------------------------------------- validation
valid_categories ==
  <<"Food", "Travel", "Transport", "Shopping", "Bills", "Healthcare", "Education",
    "Business", "Other">>

CategorySet == {valid_categories[i] : i \in 1..Len(valid_categories)}

AmountMessage == "Amount must be a positive number"
\* "Invalid category. Must be one of: " + ", ".join(valid_categories), as its parts.
CategoryMessage == <<"Invalid category. Must be one of: ">> \o valid_categories

\* Mutant of AmountNotPositive: `amount < 0`, which lets zero through.
AmountNotPositive_ZeroAccepted(amount) ==
  CASE amount.kind = "str" -> "TypeError"
    [] amount.kind = "nan" -> "False"
    [] OTHER -> IF amount.v < 0 THEN "True" ELSE "False"

\* `amount <= 0`: TypeError for a value that is no number, False for nan.
AmountNotPositive(amount) ==
  CASE amount.kind = "str" -> "TypeError"
    [] amount.kind = "nan" -> "False"
    [] OTHER -> IF amount.v <= 0 THEN "True" ELSE "False"

CategoryValid(category) == category \in CategorySet

\* Mutant of AddChecks: the category is checked before the date and the amount.
AddChecks_CategoryFirst(a) ==
  IF ~CategoryValid(a.category)
    THEN [kind |-> "error", message |-> CategoryMessage]
  ELSE IF ~validate_date(a.date).valid
    THEN [kind |-> "error", message |-> <<validate_date(a.date).msg>>]
  ELSE IF AmountNotPositive(a.amount) = "TypeError"
    THEN [kind |-> "raise", message |-> <<"TypeError">>]
  ELSE IF AmountNotPositive(a.amount) = "True"
    THEN [kind |-> "error", message |-> <<AmountMessage>>]
  ELSE [kind |-> "ok", message |-> << >>]

\* The checks of add_expense in their order: the first that fails decides.
AddChecks(a) ==
  IF ~validate_date(a.date).valid
    THEN [kind |-> "error", message |-> <<validate_date(a.date).msg>>]
  ELSE IF AmountNotPositive(a.amount) = "TypeError"
    THEN [kind |-> "raise", message |-> <<"TypeError">>]
  ELSE IF AmountNotPositive(a.amount) = "True"
    THEN [kind |-> "error", message |-> <<AmountMessage>>]
  ELSE IF ~CategoryValid(a.category)
    THEN [kind |-> "error", message |-> CategoryMessage]
  ELSE [kind |-> "ok", message |-> << >>]

\* The date checks of list_expenses and summarize.
RangeChecks(start_date, end_date) ==
  IF ~validate_date(start_date).valid
    THEN [kind |-> "error",
          message |-> <<"Invalid start_date: ", validate_date(start_date).msg>>]
  ELSE IF ~validate_date(end_date).valid
    THEN [kind |-> "error",
          message |-> <<"Invalid end_date: ", validate_date(end_date).msg>>]
  ELSE [kind |-> "ok", message |-> << >>]

\* ------------------------------------------------------------------ results
ErrorResult(message) == [status |-> "error", message |-> message]

DatabaseError(cause) == ErrorResult(<<"Database error: ", cause>>)

\* f"{amount:.2f}" of a whole amount: its digits and two zero decimals.
Format2f(v) == <<v, ".", 0, 0>>

AddedResult(id, a) ==
  [status |-> "success", id |-> id,
   message |-> <<"Added expense: ", a.category, " - $", Format2f(a.amount.v),
                 " on ", a.date>>]

ListResult(expenses) ==
  [status |-> "success", count |-> Len(expenses), expenses |-> expenses]

SummaryResult(start_date, end_date, summary) ==
  [status |-> "success", period |-> <<start_date, " to ", end_date>>,
   total_amount |-> SummaryTotal(summary), summary |-> summary]

\* -------------------------------------------------------------------- state
VARIABLES
  store,   \* the committed rows of `expenses`, in rowid order
  seq,     \* sqlite_sequence: the largest rowid committed
  lock,    \* the caller whose connection holds the write lock, or "free"
  pc,      \* per caller: "idle", a step of its add_expense, or "done" (result ready)
  call,    \* per caller: its latest call, [op, args]
  cur,     \* per caller: cur.lastrowid of its INSERT
  txn,     \* per caller: the transaction of its latest add_expense
  ret,     \* per caller: how its latest call ended, [outcome, value, at]
  log      \* the add_expense calls that returned success: <<id, args>>, in order

vars == <<store, seq, lock, pc, call, cur, txn, ret, log>>

NoCall == [op |-> "none", args |-> << >>]
NoReturn == [outcome |-> "none", value |-> << >>, at |-> 0]
Running == [outcome |-> "running", value |-> << >>, at |-> 0]

Init ==
  /\ store = << >>
  /\ seq = 0
  /\ lock = "free"
  /\ pc = [p \in Callers |-> "idle"]
  /\ call = [p \in Callers |-> NoCall]
  /\ cur = [p \in Callers |-> 0]
  /\ txn = [p \in Callers |-> "none"]
  /\ ret = [p \in Callers |-> NoReturn]
  /\ log = << >>

\* The call of p ends returning `value`; `at` is the table version it read.
Return(p, value) ==
  /\ pc' = [pc EXCEPT ![p] = "done"]
  /\ ret' = [ret EXCEPT ![p] = [outcome |-> "returned", value |-> value, at |-> seq]]

\* The call of p ends with an exception reaching the caller.
Raise(p, exception) ==
  /\ pc' = [pc EXCEPT ![p] = "done"]
  /\ ret' = [ret EXCEPT ![p] = [outcome |-> "raised", value |-> <<exception>>, at |-> seq]]

\* An exception inside the try block: the connection is still to be closed.
Except(p, cause) ==
  /\ pc' = [pc EXCEPT ![p] = "abort"]
  /\ ret' = [ret EXCEPT ![p] = [outcome |-> "running", value |-> <<cause>>, at |-> 0]]

\* ------------------------------------------------------------- add_expense
\* The call, up to the first await: the three checks.
AddExpense(p, date, amount, category, subcategory, note) ==
  LET a == [date |-> date, amount |-> amount, category |-> category,
            subcategory |-> subcategory, note |-> note]
      chk == AddChecks(a)
  IN /\ pc[p] = "idle"
     /\ call' = [call EXCEPT ![p] = [op |-> "add_expense", args |-> a]]
     /\ CASE chk.kind = "error" -> Return(p, ErrorResult(chk.message))
          [] chk.kind = "raise" -> Raise(p, chk.message[1])
          [] OTHER -> /\ pc' = [pc EXCEPT ![p] = "connect"]
                      /\ ret' = [ret EXCEPT ![p] = Running]
     /\ UNCHANGED <<store, seq, lock, cur, txn, log>>

\* aiosqlite.connect(DB_PATH) succeeds.
AddConnect(p) ==
  /\ pc[p] = "connect"
  /\ pc' = [pc EXCEPT ![p] = "insert"]
  /\ UNCHANGED <<store, seq, lock, call, cur, txn, ret, log>>

\* aiosqlite.connect(DB_PATH) raises: nothing to close.
AddConnectFail(p) ==
  /\ pc[p] = "connect"
  /\ Return(p, DatabaseError("unable to open database file"))
  /\ UNCHANGED <<store, seq, lock, call, cur, txn, log>>

\* db.execute(INSERT ...) succeeds: the transaction holds the write lock and
\* the new row, not yet committed, has its rowid.
AddInsert(p) ==
  /\ pc[p] = "insert"
  /\ call[p].args.amount.kind = "num"
  /\ WriteLockFree(lock)
  /\ lock' = p
  /\ cur' = [cur EXCEPT ![p] = NextRowid(seq)]
  /\ txn' = [txn EXCEPT ![p] = "open"]
  /\ pc' = [pc EXCEPT ![p] = "commit"]
  /\ UNCHANGED <<store, seq, call, ret, log>>

\* db.execute(INSERT ...) of a nan amount: SQLite binds nan as NULL and the
\* column is NOT NULL.
AddInsertNull(p) ==
  /\ pc[p] = "insert"
  /\ call[p].args.amount.kind = "nan"
  /\ WriteLockFree(lock)
  /\ lock' = p
  /\ txn' = [txn EXCEPT ![p] = "open"]
  /\ Except(p, "NOT NULL constraint failed: expenses.amount")
  /\ UNCHANGED <<store, seq, call, cur, log>>

\* db.execute(INSERT ...) while another connection holds the write lock, past
\* the busy timeout.
AddInsertBusy(p) ==
  /\ pc[p] = "insert"
  /\ ~WriteLockFree(lock)
  /\ Except(p, "database is locked")
  /\ UNCHANGED <<store, seq, lock, call, cur, txn, log>>

\* db.execute(INSERT ...) fails in the storage.
AddInsertFail(p) ==
  /\ pc[p] = "insert"
  /\ WriteLockFree(lock)
  /\ Except(p, "disk I/O error")
  /\ UNCHANGED <<store, seq, lock, call, cur, txn, log>>

\* db.commit() succeeds: the row is in the table and the lock is released.
AddCommit(p) ==
  /\ pc[p] = "commit"
  /\ store' = CommitRows(store, Row(cur[p], call[p].args))
  /\ seq' = cur[p]
  /\ lock' = "free"
  /\ txn' = [txn EXCEPT ![p] = "committed"]
  /\ pc' = [pc EXCEPT ![p] = "close"]
  /\ UNCHANGED <<call, cur, ret, log>>

\* db.commit() raises: the transaction stays open until the connection closes.
AddCommitFail(p) ==
  /\ pc[p] = "commit"
  /\ Except(p, "disk I/O error")
  /\ UNCHANGED <<store, seq, lock, call, cur, txn, log>>

\* The async with block ends: the connection closes and the call returns success.
AddClose(p) ==
  /\ pc[p] = "close"
  /\ Return(p, AddedResult(cur[p], call[p].args))
  /\ log' = Append(log, <<cur[p], call[p].args>>)
  /\ UNCHANGED <<store, seq, lock, call, cur, txn>>

\* The async with block ends and close() raises: `except Exception` returns it.
AddCloseFail(p) ==
  /\ pc[p] = "close"
  /\ Return(p, DatabaseError("unable to close due to unfinalized statements"))
  /\ UNCHANGED <<store, seq, lock, call, cur, txn, log>>

\* An exception leaves the async with block: the connection closes, an open
\* transaction is rolled back, and `except Exception` returns the error.
AddAbort(p) ==
  /\ pc[p] = "abort"
  /\ lock' = IF lock = p THEN "free" ELSE lock
  /\ txn' = [txn EXCEPT ![p] = IF @ = "open" THEN "rolledback" ELSE @]
  /\ Return(p, DatabaseError(ret[p].value[1]))
  /\ UNCHANGED <<store, seq, call, cur, log>>

\* ----------------------------------------------------------- list_expenses
\* The whole call: its SELECT reads the table at one instant.  `fault`: the
\* storage fails.
ListExpenses(p, start_date, end_date, fault) ==
  LET chk == RangeChecks(start_date, end_date)
  IN /\ pc[p] = "idle"
     /\ call' = [call EXCEPT ![p] = [op |-> "list_expenses",
                   args |-> [start_date |-> start_date, end_date |-> end_date]]]
     /\ IF chk.kind = "error" THEN Return(p, ErrorResult(chk.message))
        ELSE IF fault THEN Return(p, DatabaseError("disk I/O error"))
        ELSE Return(p, ListResult(QueryRange(store, start_date, end_date)))
     /\ UNCHANGED <<store, seq, lock, cur, txn, log>>

\* --------------------------------------------------------------- summarize
Summarize(p, start_date, end_date, category, fault) ==
  LET chk == RangeChecks(start_date, end_date)
  IN /\ pc[p] = "idle"
     /\ call' = [call EXCEPT ![p] = [op |-> "summarize",
                   args |-> [start_date |-> start_date, end_date |-> end_date,
                             category |-> category]]]
     /\ IF chk.kind = "error" THEN Return(p, ErrorResult(chk.message))
        ELSE IF fault THEN Return(p, DatabaseError("disk I/O error"))
        ELSE Return(p, SummaryResult(start_date, end_date,
                         AggregateRange(store, start_date, end_date, category)))
     /\ UNCHANGED <<store, seq, lock, cur, txn, log>>

\* ------------------------------------------------------------------ caller
\* The caller takes the result of its call (the tool's return value is handed
\* over); it may then call again.
TakeResult(p) ==
  /\ pc[p] = "done"
  /\ pc' = [pc EXCEPT ![p] = "idle"]
  /\ call' = [call EXCEPT ![p] = NoCall]
  /\ cur' = [cur EXCEPT ![p] = 0]
  /\ txn' = [txn EXCEPT ![p] = "none"]
  /\ ret' = [ret EXCEPT ![p] = NoReturn]
  /\ UNCHANGED <<store, seq, lock, log>>

\* ------------------------------------------------------------ specifications
\* Spec: concurrent callers and a storage that may fail.
Dates == {D_2024_01_10, D_2024_13_01}
Amounts == {Num(2), Num(0), NaN, NotANumber}
CategoryNames == {"Food", "Groceries"}
Subcategories == {"Lunch"}
Notes == {NULL}
Filters == {"Food"}

\* Rows in the table plus INSERTs under way.
Load == Len(store) + Cardinality({q \in Callers : pc[q] \notin {"idle", "done"}})

Next ==
  \E p \in Callers :
    \/ \E d \in Dates, a \in Amounts, c \in CategoryNames,
          s \in Subcategories, n \in Notes :
         Load < MaxWrites /\ AddExpense(p, d, a, c, s, n)
    \/ AddConnect(p)
    \/ AddConnectFail(p)
    \/ AddInsert(p)
    \/ AddInsertNull(p)
    \/ AddInsertBusy(p)
    \/ AddInsertFail(p)
    \/ AddCommit(p)
    \/ AddCommitFail(p)
    \/ AddClose(p)
    \/ AddCloseFail(p)
    \/ AddAbort(p)
    \/ \E s \in Dates, e \in Dates, f \in BOOLEAN : ListExpenses(p, s, e, f)
    \/ \E s \in Dates, e \in Dates, c \in Filters, f \in BOOLEAN :
         Summarize(p, s, e, c, f)
    \/ TakeResult(p)

Spec == Init /\ [][Next]_vars

\* LedgerSpec: one caller at a time and a storage that works, over more dates,
\* amounts and categories.
LedgerDates == {D_2024_01_10, D_2024_1_5, D_2024_13_01, D_2024_02_30}
LedgerAmounts == {Num(2), Num(7), Num(0), Num(-5), NaN, NotANumber}
LedgerCategories == {"Food", "Travel", "Groceries"}
LedgerFilters == {NULL, "", "Food", "Groceries"}
RangeDates == {D_2024_01_10, D_2024_1_5, D_2024_13_01}

LedgerNext ==
  \/ \E d \in LedgerDates, a \in LedgerAmounts, c \in LedgerCategories :
       Len(store) < MaxRecords /\ AddExpense("c1", d, a, c, NULL, NULL)
  \/ AddConnect("c1")
  \/ AddInsert("c1")
  \/ AddInsertNull("c1")
  \/ AddCommit("c1")
  \/ AddClose("c1")
  \/ AddAbort("c1")
  \/ \E s \in RangeDates, e \in RangeDates : ListExpenses("c1", s, e, FALSE)
  \/ \E s \in RangeDates, e \in RangeDates, c \in LedgerFilters :
       Summarize("c1", s, e, c, FALSE)
  \/ TakeResult("c1")

LedgerSpec == Init /\ [][LedgerNext]_vars

\* ------------------------------------------------------------------- claims
\* The nine categories, as the specification lists them.
NineCategories ==
  {"Food", "Travel", "Transport", "Shopping", "Bills", "Healthcare", "Education",
   "Business", "Other"}

\* Caller p holds the result of a call of `op` that returned (did not raise).
Returned(p, op) ==
  pc[p] = "done" /\ call[p].op = op /\ ret[p].outcome = "returned"

Succeeded(p, op) == Returned(p, op) /\ ret[p].value.status = "success"
Failed(p, op) == Returned(p, op) /\ ret[p].value.status = "error"

\* The rows of the table with the given id.
RowsWithId(id) == {i \in 1..Len(store) : store[i].id = id}

\* Row r carries the fields the add_expense arguments a supplied.
CarriesFields(r, a) ==
  /\ r.date = a.date
  /\ r.amount = a.amount.v
  /\ r.category = a.category
  /\ r.subcategory = a.subcategory
  /\ r.note = a.note

\* C1: in every reachable state, under any interleaving of the three tools and
\* any storage failure, every row of the table has amount > 0 and one of the
\* nine categories.
C1_StoredRecordsValid ==
  \A i \in 1..Len(store) :
    store[i].amount > 0 /\ store[i].category \in NineCategories

\* C1's case: the table holds a row while a call with a nan amount, which the
\* amount check lets through, has ended in an error from the storage.
C1_Witness ==
  /\ Len(store) >= 1
  /\ \E p \in Callers :
       /\ Failed(p, "add_expense")
       /\ call[p].args.amount.kind = "nan"
       /\ ret[p].value.message[1] = "Database error: "

C3_UniqueIdsNoLostInsert ==
  /\ \A i, j \in 1..Len(store) : i # j => store[i].id # store[j].id
  /\ \A i, j \in 1..Len(log) : i # j => log[i][1] # log[j][1]
  /\ \A k \in 1..Len(log) :
       /\ Cardinality(RowsWithId(log[k][1])) = 1
       /\ \A i \in RowsWithId(log[k][1]) : CarriesFields(store[i], log[k][2])
  /\ \A p \in Callers :
       Succeeded(p, "add_expense") =>
         /\ \E k \in 1..Len(log) : log[k] = <<ret[p].value.id, call[p].args>>
         /\ Cardinality(RowsWithId(ret[p].value.id)) = 1

\* C3's case: two calls overlap; one has committed its row and not yet
\* returned, the other has inserted after it and holds the write lock.
C3_Witness ==
  \E p, q \in Callers :
    /\ p # q
    /\ pc[p] = "close" /\ pc[q] = "commit"
    /\ lock = q
    /\ cur[p] # 0 /\ cur[q] # 0 /\ cur[p] # cur[q]

SeqToSet(q) == {q[i] : i \in 1..Len(q)}

\* The rows of the table a range query is to return: start <= date <= end in
\* the text order of 4.2 (lexicographic comparison of the date strings).
InRangeRows(start_date, end_date) ==
  {i \in 1..Len(store) :
     TextLE(start_date, store[i].date) /\ TextLE(store[i].date, end_date)}

\* C4: for two valid dates, list_expenses returns success with exactly the rows
\* whose date lies in [start_date, end_date], both endpoints included, each
\* once, by date descending, and count is their number; with start_date after
\* end_date the result is success, count 0 and no rows.
C4_ListRange ==
  \A p \in Callers :
    (/\ pc[p] = "done" /\ call[p].op = "list_expenses"
     /\ validate_date(call[p].args.start_date).valid
     /\ validate_date(call[p].args.end_date).valid) =>
      LET a == call[p].args
          v == ret[p].value
      IN /\ ret[p].outcome = "returned"
         /\ v.status = "success"
         /\ SeqToSet(v.expenses) = {store[i] : i \in InRangeRows(a.start_date, a.end_date)}
         /\ Len(v.expenses) = Cardinality(InRangeRows(a.start_date, a.end_date))
         /\ v.count = Len(v.expenses)
         /\ \A i, j \in 1..Len(v.expenses) :
              i < j => TextLE(v.expenses[j].date, v.expenses[i].date)
         /\ ~TextLE(a.start_date, a.end_date) => (v.count = 0 /\ v.expenses = << >>)

\* C4's case: a list whose endpoints are the dates of stored rows has returned
\* rows of both dates, the later date first.
C4_Witness ==
  \E p \in Callers :
    /\ Succeeded(p, "list_expenses")
    /\ call[p].args.start_date = D_2024_01_10
    /\ call[p].args.end_date = D_2024_1_5
    /\ ret[p].value.count = 3
    /\ ret[p].value.expenses[1].date = D_2024_1_5
    /\ ret[p].value.expenses[3].date = D_2024_01_10

\* The rows of the table a summary covers: in the range and, when a filter is
\* given (a string that is not empty), of that category.
CoveredRows(a) ==
  {i \in InRangeRows(a.start_date, a.end_date) :
     (a.category \notin {NULL, ""}) => store[i].category = a.category}

\* The float sums of the amounts of rows S of the table, over every order of
\* adding them.
RECURSIVE SumsOf(_)
SumsOf(S) ==
  IF S = {} THEN {0}
  ELSE UNION {{FloatAdd(t, store[i].amount) : t \in SumsOf(S \ {i})} : i \in S}

\* C5: for a valid range and any filter, summarize returns one row per category
\* that has a covered row, with the count and the (float) sum of the amounts of
\* those rows, no row of count 0, rows by total_amount descending, and a
\* total_amount that is the sum of the rows' totals, taken in their order; a
\* filter that matches nothing gives success with an empty summary.
C5_SummaryRows ==
  \A p \in Callers :
    (/\ pc[p] = "done" /\ call[p].op = "summarize"
     /\ validate_date(call[p].args.start_date).valid
     /\ validate_date(call[p].args.end_date).valid) =>
      LET a == call[p].args
          v == ret[p].value
          rows == CoveredRows(a)
          of(c) == {i \in rows : store[i].category = c}
      IN /\ ret[p].outcome = "returned"
         /\ v.status = "success"
         /\ {v.summary[k].category : k \in 1..Len(v.summary)}
              = {store[i].category : i \in rows}
         /\ Len(v.summary) = Cardinality({store[i].category : i \in rows})
         /\ \A k \in 1..Len(v.summary) :
              /\ v.summary[k].count = Cardinality(of(v.summary[k].category))
              /\ v.summary[k].count > 0
              /\ v.summary[k].total_amount \in SumsOf(of(v.summary[k].category))
         /\ \A j, k \in 1..Len(v.summary) :
              j < k => v.summary[j].total_amount >= v.summary[k].total_amount
         /\ v.total_amount
              = FloatSum([k \in 1..Len(v.summary) |-> v.summary[k].total_amount])
         /\ rows = {} => v.summary = << >>

\* C5's case: a filtered summary of a table with rows of two categories has
\* returned the one row of the filter's category, of two records.
C5_Witness ==
  \E p \in Callers :
    /\ Succeeded(p, "summarize")
    /\ call[p].args.category = "Food"
    /\ \E i \in 1..Len(store) : store[i].category = "Travel"
    /\ Len(ret[p].value.summary) = 1
    /\ ret[p].value.summary[1].count = 2

\* The amounts of the rows list_expenses returns for the range of a, those of
\* the filter's category when one is given, in the order it returns them.
ListedAmounts(a) ==
  LET listed == ListResult(QueryRange(store, a.start_date, a.end_date)).expenses
      kept == SelectSeq(listed, LAMBDA r :
                (a.category \notin {NULL, ""}) => r.category = a.category)
  IN AmountsOf(kept)

RECURSIVE ExactSum(_)
ExactSum(xs) == IF xs = << >> THEN 0 ELSE xs[1] + ExactSum(Tail(xs))

RECURSIVE Power(_, _)
Power(b, n) == IF n = 0 THEN 1 ELSE b * Power(b, n - 1)

Abs(x) == IF x < 0 THEN -x ELSE x

\* C6, as claimed: the total_amount of summarize equals the sum of the amounts
\* of the rows list_expenses returns for the same range and filter, added up in
\* the order of the list.
C6_SummationExact ==
  \A p \in Callers :
    Succeeded(p, "summarize") =>
      ret[p].value.total_amount = FloatSum(ListedAmounts(call[p].args))

\* C6, amended: the two sums agree up to the rounding of the float additions.
\* Each is the sum of the same n amounts by n - 1 additions, each addition with
\* a relative error of at most 2^-Precision, so they differ by at most
\* S * ((1 + 2^-Precision)^(n-1) - (1 - 2^-Precision)^(n-1)), S the exact sum.
C6_SummationWithinRounding ==
  \A p \in Callers :
    Succeeded(p, "summarize") =>
      LET xs == ListedAmounts(call[p].args)
          n == IF Len(xs) = 0 THEN 1 ELSE Len(xs)
          one == Pow2(Precision)
      IN Abs(ret[p].value.total_amount - FloatSum(xs)) * Power(one, n - 1)
           <= ExactSum(xs) * (Power(one + 1, n - 1) - Power(one - 1, n - 1))

\* C6's case: a summary over three rows of two categories, where the grouping
\* adds the amounts in another order than the list does.
C6_Witness ==
  \E p \in Callers :
    /\ Succeeded(p, "summarize")
    /\ Len(ListedAmounts(call[p].args)) = 3
    /\ Len(ret[p].value.summary) = 2
    /\ ret[p].value.total_amount # ExactSum(ListedAmounts(call[p].args))

\* C7, as claimed: no call ends with an exception reaching the caller.
C7_NoCallRaises ==
  \A p \in Callers : ret[p].outcome # "raised"

\* A date string of the fixed-width, zero-padded form dddd-dd-dd.
FixedWidth(d) ==
  /\ Len(d) = 10
  /\ \A i \in {1, 2, 3, 4, 6, 7, 9, 10} : d[i] \in Digits
  /\ d[5] = "-" /\ d[8] = "-"

\* C8, as claimed: every stored date is fixed-width and zero-padded, and the
\* text order of any two stored dates is their chronological order.
C8_StoredDatesFixedWidth ==
  /\ \A i \in 1..Len(store) : FixedWidth(store[i].date)
  /\ \A i, j \in 1..Len(store) :
       TextLE(store[i].date, store[j].date)
         <=> DayNumber(store[i].date) <= DayNumber(store[j].date)

\* C9: the table only grows: every row stays where it is with the same fields;
\* list_expenses and summarize leave the table alone; and a list_expenses
\* returns what another list_expenses with the same arguments returned from
\* the same table (no row committed in between).
C9_AppendOnly ==
  [][/\ Len(store') >= Len(store)
     /\ \A i \in 1..Len(store) : store'[i] = store[i]
     /\ \A p \in Callers :
          (pc[p] = "idle" /\ pc'[p] = "done"
             /\ call'[p].op \in {"list_expenses", "summarize"}) =>
            /\ store' = store
            /\ \A q \in Callers :
                 (/\ Succeeded(q, "list_expenses")
                  /\ call'[p] = call[q]
                  /\ ret'[p].outcome = "returned"
                  /\ ret'[p].value.status = "success"
                  /\ ret'[p].at = ret[q].at) =>
                   ret'[p].value = ret[q].value
  ]_vars

\* C9's case: with two rows in the table, both callers hold the result of the
\* same list_expenses, read from the same table.
C9_Witness ==
  /\ Len(store) = 2
  /\ \A p \in Callers :
       /\ Succeeded(p, "list_expenses")
       /\ ret[p].value.count = 2
       /\ ret[p].at = seq
  /\ \A p, q \in Callers : call[p] = call[q]

\* C10, as claimed: a storage failure in add_expense gives an error whose
\* message starts "Database error: ", and a call that returned an error has
\* added no row.
C10_ErrorAddsNoRecord ==
  \A p \in Callers :
    Failed(p, "add_expense") =>
      /\ txn[p] # "none" => ret[p].value.message[1] = "Database error: "
      /\ txn[p] # "committed"

====
